---- MODULE Spec2Model ----
(***************************************************************************)
(* A model of the rebe-shell backend: the per-host circuit breaker, the    *)
(* SSH connection pool with its leases and remote commands, the PTY        *)
(* session registry, and the session gateway with the two pumps of a       *)
(* websocket connection.                                                   *)
(*                                                                         *)
(* Time is a discrete monotonic clock (Instant::now()); a Duration is a    *)
(* number of clock ticks.  Every critical section of the code (the span    *)
(* between taking a tokio Mutex and releasing it) is one action, except    *)
(* where the code holds the lock across an await or a blocking call; the   *)
(* lock is then a variable and the section is split at that point.         *)
(***************************************************************************)
EXTENDS Integers, Sequences, FiniteSets, TLC

VARIABLES
    now,               \* Instant::now(): the monotonic clock
    breaker_config,    \* CircuitBreakerConfig shared by the breakers of the gateway
    circuit_breakers,  \* AppState.circuit_breakers: host -> BreakerState (or none yet)
    cpc,               \* where each caller of a breaker stands
    chost,             \* the host of the caller's current (or last) request
    cres,              \* the outcome of the caller's last request
    streak,            \* history: per host, the run of sequential calls since
                       \* Closed(0) / HalfOpen(0) (for the threshold claims)
    pool_config,       \* PoolConfig of the SSHPool
    connections,       \* SSHPool.connections: host key -> Vec<SSHConnection>
    pool_lock,         \* the holder of the connections mutex while it is held
                       \* across an await or a blocking call, else NoOne
    ppc,               \* where each client of the pool stands
    lease,             \* the PooledConnection of each client: its key, and as
                       \* history the session of the entry acquire marked for it
    pres,              \* the outcome of the client's last pool operation
    pending_release,   \* host key -> release tasks spawned by Drop, not yet run
    next_session,      \* the next ssh2 Session to be created
    pruned_idle,       \* history: the <<key, session>> of the idle entries that
                       \* acquire has removed as expired
    output,            \* the length of the stdout that the client's last exec
                       \* has returned
    timed_out,         \* history: the <<key, session>> of the leases on which
                       \* exec_with_timeout has ended with the timeout
    acquire_pruned,    \* history: how many entries the client's last acquire
                       \* removed as expired, if it went on to create a
                       \* connection and has not returned a lease
    sessions,          \* PtyManager.sessions: the ids in the registry
    next_id,           \* the next SessionId::new_v4()
    closed,            \* history: the ids on which close() has returned
    tpc,               \* where each user of the PTY manager stands
    tid,               \* the session id of the user's current (or last) operation
    tres,              \* the outcome of the user's last operation
    hpc,               \* where handle_websocket stands, per connection
    wsid,              \* the session id of the connection
    sock,              \* the websocket: "open" until the client is gone
    sent,              \* history: the frames the gateway has sent on the connection
    spc,               \* where the reader-pump (send_task) stands
    rpc,               \* where the writer-pump (recv_task) stands
    command_buffer,    \* command_buffer of the writer-pump
    lines,             \* the lines of the current frame still to be processed
    received,          \* history: the decoded payloads of the input frames, joined
    nframes,           \* history: the number of input frames received
    transcript,        \* history: the writes of the connection to its PTY
    exited,            \* the ids of the sessions whose child process has exited
    eof,               \* history: the ids on which a read has met the end of
                       \* the stream
    counted,           \* history: the kinds of error of the dispatched operation
                       \* that call() has counted since its last success
    chunks,            \* StreamingOutputHandler.chunks
    total_size,        \* StreamingOutputHandler.total_size
    max_size,          \* StreamingOutputHandler.max_size
    pushed,            \* the outcome of the last push_chunk
    parse_input,       \* the line given to parse_command
    parse_output       \* the Command that parse_command returned for it

breakerVars == <<breaker_config, circuit_breakers, cpc, chost, cres, streak>>
poolVars == <<pool_config, connections, pool_lock, ppc, lease, pres,
              pending_release, next_session, pruned_idle, output, timed_out,
              acquire_pruned>>
ptyVars == <<sessions, next_id, closed, tpc, tid, tres>>
gwVars == <<hpc, wsid, sock, sent, spc, rpc, command_buffer, lines, received,
            nframes, transcript>>
streamVars == <<chunks, total_size, max_size, pushed>>
parseVars == <<parse_input, parse_output>>
auxVars == <<exited, eof, counted, streamVars, parseVars>>
vars == <<now, breakerVars, poolVars, ptyVars, gwVars, auxVars>>

(***************************************************************************)
(* Bounds of the model.                                                    *)
(***************************************************************************)
MaxTime == 3          \* the clock runs from 0 to MaxTime beside the breakers
MaxPoolTime == 2      \* and from 0 to MaxPoolTime beside the pool
MaxThreshold == 2     \* failure_threshold, success_threshold range over 1..MaxThreshold
MaxTimeout == 1       \* the breaker timeout ranges over 1..MaxTimeout ticks

Hosts == {"h1", "h2"}
HttpClients == {"c1"}      \* requests of POST /api/ssh/execute
WsClients == {"g1", "g2"}  \* websocket connections
WsSessions == {"g1"}       \* the connection that the gateway specification drives
Callers == HttpClients \cup WsClients

MaxConnections == 2   \* max_connections_per_host ranges over 1..MaxConnections
IdleTimeout == 1      \* idle_timeout, in ticks
MaxSessions == 2      \* at most MaxSessions ssh2 Sessions are created
MaxSize == 0          \* max_size of the StreamingOutputHandler, in bytes
MaxOutput == 1        \* the stdout of a remote command has 0..MaxOutput bytes

Keys == {"k1", "k2"}       \* HostKey values
Clients == {"a", "b"}      \* tasks that acquire leases from the pool

MaxSpawn == 2         \* at most MaxSpawn PTY sessions are spawned

Users == {"u1", "u2"}      \* tasks that call the PTY manager

(***************************************************************************)
(* Circuit breaker: src/src-tauri/src/circuit_breaker/mod.rs               *)
(***************************************************************************)
Closed(f) == [tag |-> "Closed", failures |-> f, opened_at |-> 0, successes |-> 0]
Open(t) == [tag |-> "Open", failures |-> 0, opened_at |-> t, successes |-> 0]
HalfOpen(s) == [tag |-> "HalfOpen", failures |-> 0, opened_at |-> 0, successes |-> s]
NoBreaker == [tag |-> "None", failures |-> 0, opened_at |-> 0, successes |-> 0]

\* CircuitBreaker::new
NewBreaker == Closed(0)

\* Instant::elapsed of opened_at
Elapsed(t) == now - t

\* The test of line 58: the breaker is Open and its timeout has run out.
TimedOut(st, cfg) == st.tag = "Open" /\ Elapsed(st.opened_at) > cfg.timeout

\* The first critical section of call(): the state after the check, and whether
\* the operation is admitted.
AdmitWrong(st, cfg) ==
    IF st.tag = "Open"
    THEN IF Elapsed(st.opened_at) >= cfg.timeout
         THEN [state |-> HalfOpen(0), admitted |-> TRUE]
         ELSE [state |-> st, admitted |-> FALSE]
    ELSE [state |-> st, admitted |-> TRUE]

AdmitNoReset(st, cfg) ==
    IF st.tag = "Open"
    THEN IF Elapsed(st.opened_at) > cfg.timeout
         THEN [state |-> HalfOpen(1), admitted |-> TRUE]
         ELSE [state |-> st, admitted |-> FALSE]
    ELSE [state |-> st, admitted |-> TRUE]

Admit(st, cfg) ==
    IF st.tag = "Open"
    THEN IF Elapsed(st.opened_at) > cfg.timeout
         THEN [state |-> HalfOpen(0), admitted |-> TRUE]
         ELSE [state |-> st, admitted |-> FALSE]
    ELSE [state |-> st, admitted |-> TRUE]

\* The second critical section of call(): the state after an operation that
\* ended Ok (ok = TRUE) or Err (ok = FALSE).
OnResultLate(st, cfg, ok) ==
    IF ok
    THEN IF st.tag = "HalfOpen"
         THEN IF st.successes + 1 > cfg.success_threshold
              THEN Closed(0)
              ELSE HalfOpen(st.successes + 1)
         ELSE Closed(0)
    ELSE IF st.tag = "Closed"
         THEN IF st.failures + 1 > cfg.failure_threshold
              THEN Open(now)
              ELSE Closed(st.failures + 1)
         ELSE IF st.tag = "HalfOpen"
              THEN Open(now)
              ELSE st

OnResultStaysHalfOpen(st, cfg, ok) ==
    IF ok
    THEN IF st.tag = "HalfOpen"
         THEN IF st.successes + 1 >= cfg.success_threshold
              THEN Closed(0)
              ELSE HalfOpen(st.successes + 1)
         ELSE Closed(0)
    ELSE IF st.tag = "Closed"
         THEN IF st.failures + 1 >= cfg.failure_threshold
              THEN Open(now)
              ELSE Closed(st.failures + 1)
         ELSE st

OnResult(st, cfg, ok) ==
    IF ok
    THEN IF st.tag = "HalfOpen"
         THEN IF st.successes + 1 >= cfg.success_threshold
              THEN Closed(0)
              ELSE HalfOpen(st.successes + 1)
         ELSE Closed(0)
    ELSE IF st.tag = "Closed"
         THEN IF st.failures + 1 >= cfg.failure_threshold
              THEN Open(now)
              ELSE Closed(st.failures + 1)
         ELSE IF st.tag = "HalfOpen"
              THEN Open(now)
              ELSE st

\* CircuitBreaker::is_open
is_open(st) == st.tag = "Open"

\* The state lock of the breaker of host h, as caller c finds it: call() holds
\* it inside the block of its check and again from the end of the operation to
\* its return, is_open() for the length of its test.  Each of these is one
\* step, and the operation itself runs with the lock released, so between two
\* steps no other caller holds the lock.
StateLockedOverOperation(c, h) ==
    \E d \in Callers \ {c} : cpc[d] = "running" /\ chost[d] = h

StateLocked(c, h) == FALSE

\* AppState::get_or_create_breaker: the map after the lookup of host h.
get_or_create_breaker(h) ==
    IF circuit_breakers[h] = NoBreaker
    THEN [circuit_breakers EXCEPT ![h] = NewBreaker]
    ELSE circuit_breakers

(***************************************************************************)
(* History of sequential calls on one host, kept for the threshold claims. *)
(* A run starts when an operation is admitted with no other call of the    *)
(* host in flight and the breaker Closed(0) or HalfOpen(0); it counts the  *)
(* failures (from Closed(0)) or successes (from HalfOpen(0)) that follow   *)
(* one another, and ends at any other call; a failure that ends a run from *)
(* HalfOpen(0) is remembered, with the successes before it, until the next *)
(* call of the host.                                                       *)
(***************************************************************************)
NoStreak == [from |-> "none", n |-> 0]

OthersInFlight(c, h) ==
    \E d \in Callers \ {c} : cpc[d] = "running" /\ chost[d] = h

StreakOnAdmit(c, h, st) ==
    IF OthersInFlight(c, h) THEN NoStreak
    ELSE IF st = Closed(0) THEN [from |-> "Closed0", n |-> 0]
    ELSE IF st = HalfOpen(0) THEN [from |-> "HalfOpen0", n |-> 0]
    ELSE streak[h]

StreakOnResult(h, ok) ==
    IF streak[h].from = "Closed0" /\ ~ok
        THEN [streak[h] EXCEPT !.n = streak[h].n + 1]
    ELSE IF streak[h].from = "HalfOpen0" /\ ok
        THEN [streak[h] EXCEPT !.n = streak[h].n + 1]
    ELSE IF streak[h].from = "HalfOpen0" /\ streak[h].n < breaker_config.success_threshold
        THEN [from |-> "HalfOpenFailed", n |-> streak[h].n]
    ELSE NoStreak

(***************************************************************************)
(* Actions of the breaker and of its two callers in the gateway.           *)
(***************************************************************************)
\* The clock advances (up to the bound of the specification).
Tick(limit) ==
    /\ now < limit
    /\ now' = now + 1
    /\ UNCHANGED <<breakerVars, poolVars, ptyVars, gwVars, auxVars>>

\* ssh_execute: a request for host h gets its breaker and goes on to call().
SshExecute(c, h) ==
    /\ c \in HttpClients
    /\ cpc[c] = "idle"
    /\ circuit_breakers' = get_or_create_breaker(h)
    /\ cpc' = [cpc EXCEPT ![c] = "call"]
    /\ chost' = [chost EXCEPT ![c] = h]
    /\ cres' = [cres EXCEPT ![c] = "none"]
    /\ UNCHANGED <<poolVars, ptyVars, gwVars, auxVars, now, breaker_config, streak>>

\* handle_ssh_command, up to the status line: a remote directive for host h
\* is received by the writer-pump of session g.
HandleSshCommand(g, h) ==
    /\ g \in WsSessions
    /\ cpc[g] = "idle"
    /\ cpc' = [cpc EXCEPT ![g] = "connecting"]
    /\ chost' = [chost EXCEPT ![g] = h]
    /\ cres' = [cres EXCEPT ![g] = "none"]
    /\ UNCHANGED <<poolVars, ptyVars, gwVars, auxVars, now, breaker_config, circuit_breakers, streak>>

\* handle_ssh_command, the breaker lookup and the is_open() test: an Open
\* breaker is answered with the fail-fast diagnostic, without call().
CheckIsOpen(g) ==
    /\ cpc[g] = "connecting"
    /\ ~StateLocked(g, chost[g])
    /\ circuit_breakers' = get_or_create_breaker(chost[g])
    /\ IF is_open(circuit_breakers'[chost[g]])
       THEN /\ cpc' = [cpc EXCEPT ![g] = "idle"]
            /\ cres' = [cres EXCEPT ![g] = "FailFast"]
       ELSE /\ cpc' = [cpc EXCEPT ![g] = "call"]
            /\ cres' = cres
    /\ UNCHANGED <<poolVars, ptyVars, gwVars, auxVars, now, breaker_config, chost, streak>>

\* call(), first critical section.
CallAdmit(c) ==
    /\ cpc[c] = "call"
    /\ ~StateLocked(c, chost[c])
    /\ LET h == chost[c]
           r == Admit(circuit_breakers[h], breaker_config)
       IN /\ circuit_breakers' = [circuit_breakers EXCEPT ![h] = r.state]
          /\ IF r.admitted
             THEN /\ cpc' = [cpc EXCEPT ![c] = "running"]
                  /\ cres' = cres
                  /\ streak' = [streak EXCEPT ![h] = StreakOnAdmit(c, h, r.state)]
             ELSE /\ cpc' = [cpc EXCEPT ![c] = "idle"]
                  /\ cres' = [cres EXCEPT ![c] = "Open"]
                  /\ streak' = [streak EXCEPT ![h] = NoStreak]
    /\ UNCHANGED <<poolVars, ptyVars, gwVars, auxVars, now, breaker_config, chost>>

\* call(), the operation has ended and the second critical section runs.
CallComplete(c, ok) ==
    /\ cpc[c] = "running"
    /\ ~StateLocked(c, chost[c])
    /\ LET h == chost[c]
       IN /\ circuit_breakers' =
                [circuit_breakers EXCEPT ![h] = OnResult(circuit_breakers[h], breaker_config, ok)]
          /\ streak' = [streak EXCEPT ![h] = StreakOnResult(h, ok)]
    /\ cpc' = [cpc EXCEPT ![c] = "idle"]
    /\ cres' = [cres EXCEPT ![c] = IF ok THEN "Ok" ELSE "OperationFailed"]
    /\ UNCHANGED <<poolVars, ptyVars, gwVars, auxVars, now, breaker_config, chost>>

Configs ==
    [failure_threshold : 1..MaxThreshold,
     success_threshold : 1..MaxThreshold,
     timeout : 1..MaxTimeout]

\* Default for CircuitBreakerConfig, in seconds
DefaultBreakerConfig ==
    [failure_threshold |-> 5, success_threshold |-> 2, timeout |-> 60]

InitBreaker ==
    /\ circuit_breakers = [h \in Hosts |-> NoBreaker]
    /\ cpc = [c \in Callers |-> "idle"]
    /\ chost = [c \in Callers |-> "h1"]
    /\ cres = [c \in Callers |-> "none"]
    /\ streak = [h \in Hosts |-> NoStreak]

NextBreaker ==
    \/ Tick(MaxTime)
    \/ \E c \in HttpClients, h \in Hosts : SshExecute(c, h)
    \/ \E g \in WsSessions, h \in Hosts : HandleSshCommand(g, h)
    \/ \E g \in WsSessions : CheckIsOpen(g)
    \/ \E c \in Callers : CallAdmit(c)
    \/ \E c \in Callers, ok \in BOOLEAN : CallComplete(c, ok)

(***************************************************************************)
(* SSH connection pool: src/conversations/001-rebe-shell/rebe-core/src/ssh/pool.rs *)
(***************************************************************************)
NoOne == "none"
NoKey == "none"
NoLease == [key |-> NoKey, slot |-> 0]

\* SSHConnection; the ssh2 Session is known by its number.
SSHConnection(s, t, u) == [session |-> s, last_used |-> t, in_use |-> u]

\* SSHConnection::is_expired
is_expired_lax(conn, timeout) == now - conn.last_used > timeout + 1

is_expired(conn, timeout) == now - conn.last_used > timeout

\* conns.retain(|c| !c.is_expired(idle_timeout))
Retain(conns) ==
    SelectSeq(conns, LAMBDA c : ~is_expired(c, pool_config.idle_timeout))

\* The first entry of conns with in_use = u, as the loops of acquire and
\* release find it; 0 when there is none.
FirstWith(conns, u) ==
    IF \E i \in DOMAIN conns : conns[i].in_use = u
    THEN CHOOSE i \in DOMAIN conns :
            /\ conns[i].in_use = u
            /\ \A j \in DOMAIN conns : conns[j].in_use = u => i <= j
    ELSE 0

\* The test of line 96: a new connection may be created.
UnderLimitWrong(conns) == Len(conns) <= pool_config.max_connections_per_host

NoLimit(conns) == TRUE

UnderLimit(conns) == Len(conns) < pool_config.max_connections_per_host

\* The end of create_connection in acquire: the `?` returns its error before
\* the push, and the session s of a connection that was made is pushed in use.
MintedAlways(conns, ok, s) == Append(conns, SSHConnection(s, now, TRUE))

Minted(conns, ok, s) ==
    IF ok THEN Append(conns, SSHConnection(s, now, TRUE)) ELSE conns

\* The loop of release: the first in-use entry is marked free.
ReleaseNothing(conns) == conns

ReleaseFirst(conns) ==
    LET i == FirstWith(conns, TRUE)
    IN IF i = 0 THEN conns ELSE [conns EXCEPT ![i].in_use = FALSE]

\* acquire, from taking the lock to the return of a reused entry, to the
\* pool-exhausted error, or to the start of create_connection (which runs with
\* the lock held).
Acquire(c, k) ==
    /\ ppc[c] = "idle"
    /\ pool_lock = NoOne
    /\ pruned_idle' = pruned_idle \cup
           {<<k, connections[k][j].session>> : j \in
               {n \in DOMAIN connections[k] :
                   /\ ~connections[k][n].in_use
                   /\ is_expired(connections[k][n], pool_config.idle_timeout)}}
    /\ LET kept == Retain(connections[k])
           i == FirstWith(kept, FALSE)
       IN IF i # 0
          THEN /\ connections' = [connections EXCEPT ![k] =
                      [kept EXCEPT ![i] = SSHConnection(kept[i].session, now, TRUE)]]
               /\ ppc' = [ppc EXCEPT ![c] = "leased"]
               /\ lease' = [lease EXCEPT ![c] = [key |-> k, slot |-> kept[i].session]]
               /\ pres' = [pres EXCEPT ![c] = "ok"]
               /\ pool_lock' = pool_lock
               /\ acquire_pruned' = [acquire_pruned EXCEPT ![c] = 0]
          ELSE IF UnderLimit(kept)
          THEN /\ connections' = [connections EXCEPT ![k] = kept]
               /\ ppc' = [ppc EXCEPT ![c] = "connecting"]
               /\ lease' = [lease EXCEPT ![c] = [key |-> k, slot |-> 0]]
               /\ pres' = [pres EXCEPT ![c] = "none"]
               /\ pool_lock' = c
               /\ acquire_pruned' = [acquire_pruned EXCEPT ![c] =
                      Len(connections[k]) - Len(kept)]
          ELSE /\ connections' = [connections EXCEPT ![k] = kept]
               /\ pres' = [pres EXCEPT ![c] = "exhausted"]
               /\ acquire_pruned' = [acquire_pruned EXCEPT ![c] = 0]
               /\ UNCHANGED <<ppc, lease, pool_lock>>
    /\ UNCHANGED <<now, auxVars, breakerVars, gwVars, ptyVars, pool_config, timed_out,
                   pending_release, next_session, output>>

\* acquire, the end of create_connection: the new entry is pushed in use, or
\* the error is returned; the lock is released.
AcquireConnect(c, ok) ==
    /\ ppc[c] = "connecting"
    /\ pool_lock = c
    /\ pool_lock' = NoOne
    /\ connections' = [connections EXCEPT ![lease[c].key] = Minted(@, ok, next_session)]
    /\ IF ok
       THEN /\ next_session <= MaxSessions
            /\ next_session' = next_session + 1
            /\ ppc' = [ppc EXCEPT ![c] = "leased"]
            /\ lease' = [lease EXCEPT ![c].slot = next_session]
            /\ pres' = [pres EXCEPT ![c] = "ok"]
            /\ acquire_pruned' = [acquire_pruned EXCEPT ![c] = 0]
       ELSE /\ ppc' = [ppc EXCEPT ![c] = "idle"]
            /\ lease' = [lease EXCEPT ![c] = NoLease]
            /\ pres' = [pres EXCEPT ![c] = "error"]
            /\ UNCHANGED <<next_session, acquire_pruned>>
    /\ UNCHANGED <<now, auxVars, breakerVars, gwVars, ptyVars, pool_config, timed_out,
                   pending_release, pruned_idle, output>>

\* PooledConnection::exec, from taking the lock: the command runs on the first
\* in-use entry of the key, with the lock held; without one exec returns an
\* error.  The calls of ssh2 block the task; hung tells whether the remote
\* command is one that never completes.
ExecBegin(c, hung) ==
    /\ ppc[c] = "leased"
    /\ pool_lock = NoOne
    /\ IF FirstWith(connections[lease[c].key], TRUE) # 0
       THEN /\ ppc' = [ppc EXCEPT ![c] = IF hung THEN "hung" ELSE "exec"]
            /\ pool_lock' = c
            /\ pres' = [pres EXCEPT ![c] = "none"]
       ELSE /\ ~hung
            /\ pres' = [pres EXCEPT ![c] = "error"]
            /\ UNCHANGED <<ppc, pool_lock>>
    /\ output' = [output EXCEPT ![c] = 0]
    /\ UNCHANGED <<now, auxVars, breakerVars, gwVars, ptyVars, pool_config, timed_out,
                   acquire_pruned, connections, lease, pending_release, next_session,
                   pruned_idle>>

\* PooledConnection::exec, the command has ended after n bytes of stdout and
\* the lock is released: Ok with the whole stdout, which read_to_string has
\* read to its end, or an error (of a call of ssh2, or the non-zero exit status).
ExecEnd(c, ok, n) ==
    /\ ppc[c] = "exec"
    /\ pool_lock = c
    /\ pool_lock' = NoOne
    /\ ppc' = [ppc EXCEPT ![c] = "leased"]
    /\ pres' = [pres EXCEPT ![c] = IF ok THEN "ok" ELSE "error"]
    /\ output' = [output EXCEPT ![c] = IF ok THEN n ELSE 0]
    /\ UNCHANGED <<now, auxVars, breakerVars, gwVars, ptyVars, pool_config, timed_out,
                   acquire_pruned, connections, lease, pending_release, next_session,
                   pruned_idle>>

\* PooledConnection::exec_with_timeout, the timer: it can end the call, with
\* the timeout error, only where exec awaits, which is at the lock of the pool.
ExecTimeout(c) ==
    /\ ppc[c] = "leased"
    /\ pool_lock # NoOne
    /\ pres' = [pres EXCEPT ![c] = "error"]
    /\ output' = [output EXCEPT ![c] = 0]
    /\ timed_out' = timed_out \cup {<<lease[c].key, lease[c].slot>>}
    /\ UNCHANGED <<now, auxVars, breakerVars, gwVars, ptyVars, pool_config, acquire_pruned,
                   connections, pool_lock, ppc, lease, pending_release, next_session,
                   pruned_idle>>

\* Drop for PooledConnection: a release task is spawned for the key.
DropLease(c) ==
    /\ ppc[c] = "leased"
    /\ ppc' = [ppc EXCEPT ![c] = "idle"]
    /\ pending_release' = [pending_release EXCEPT ![lease[c].key] = @ + 1]
    /\ lease' = [lease EXCEPT ![c] = NoLease]
    /\ pres' = [pres EXCEPT ![c] = "none"]
    /\ output' = [output EXCEPT ![c] = 0]
    /\ UNCHANGED <<now, auxVars, breakerVars, gwVars, ptyVars, pool_config, timed_out,
                   acquire_pruned, connections, pool_lock, next_session, pruned_idle>>

\* SSHPool::release, run by a spawned task.
Release(k) ==
    /\ pending_release[k] > 0
    /\ pool_lock = NoOne
    /\ connections' = [connections EXCEPT ![k] = ReleaseFirst(@)]
    /\ pending_release' = [pending_release EXCEPT ![k] = @ - 1]
    /\ UNCHANGED <<now, auxVars, breakerVars, gwVars, ptyVars, pool_config, timed_out,
                   acquire_pruned, pool_lock, ppc, lease, pres, next_session,
                   pruned_idle, output>>

PoolConfigs ==
    [max_connections_per_host : 1..MaxConnections,
     idle_timeout : {IdleTimeout}]

\* Default for PoolConfig, in seconds
DefaultPoolConfig ==
    [max_connections_per_host |-> 10, idle_timeout |-> 300]

InitPool ==
    /\ connections = [k \in Keys |-> <<>>]
    /\ pool_lock = NoOne
    /\ ppc = [c \in Clients |-> "idle"]
    /\ lease = [c \in Clients |-> NoLease]
    /\ pres = [c \in Clients |-> "none"]
    /\ pending_release = [k \in Keys |-> 0]
    /\ next_session = 1
    /\ pruned_idle = {}
    /\ output = [c \in Clients |-> 0]
    /\ timed_out = {}
    /\ acquire_pruned = [c \in Clients |-> 0]

\* The pool with remote commands that complete and print nothing.
NextPool ==
    \/ Tick(MaxPoolTime)
    \/ \E c \in Clients, k \in Keys : Acquire(c, k)
    \/ \E c \in Clients, ok \in BOOLEAN : AcquireConnect(c, ok)
    \/ \E c \in Clients : ExecBegin(c, FALSE)
    \/ \E c \in Clients, ok \in BOOLEAN : ExecEnd(c, ok, 0)
    \/ \E c \in Clients : DropLease(c)
    \/ \E k \in Keys : Release(k)

\* The pool with every remote command: those that print, those that never
\* complete, and the timer of exec_with_timeout.
NextExec ==
    \/ NextPool
    \/ \E c \in Clients : ExecBegin(c, TRUE)
    \/ \E c \in Clients, ok \in BOOLEAN : \E n \in 1..MaxOutput : ExecEnd(c, ok, n)
    \/ \E c \in Clients : ExecTimeout(c)

\* The session on which the exec of client c runs its command: that of the
\* first in-use entry of the key of its lease.
ExecSession(c) ==
    LET conns == connections[lease[c].key]
    IN conns[FirstWith(conns, TRUE)].session

\* stats(): the entries of key k that are in use.
InUseCount(k) ==
    Cardinality({i \in DOMAIN connections[k] : connections[k][i].in_use})

\* The leases of key k that acquire has returned and that are not dropped.
Outstanding(k) ==
    Cardinality({c \in Clients : ppc[c] \in {"leased", "exec", "hung"} /\ lease[c].key = k})

(***************************************************************************)
(* Properties of the circuit breaker (checked under SpecBreaker).          *)
(***************************************************************************)
\* The breaker of caller c's request is Open and its timeout has not run out.
OpenWithinTimeout(c) ==
    /\ circuit_breakers[chost[c]].tag = "Open"
    /\ now - circuit_breakers[chost[c]].opened_at <= breaker_config.timeout

\* The breaker of caller c's request is Open and its timeout has run out.
OpenPastTimeout(c) ==
    /\ circuit_breakers[chost[c]].tag = "Open"
    /\ now - circuit_breakers[chost[c]].opened_at > breaker_config.timeout

\* C1: a call() whose admission finds the breaker Open with no more than
\* timeout elapsed since opened_at never starts the wrapped operation: it
\* returns the Open error.
C1_OpenNeverAdmits ==
    [][\A c \in Callers :
          (cpc[c] = "call" /\ cpc'[c] # "call" /\ OpenWithinTimeout(c))
          => (cpc'[c] = "idle" /\ cres'[c] = "Open")]_vars

C1_Witness ==
    \E c \in Callers : cpc[c] = "idle" /\ cres[c] = "Open" /\ OpenWithinTimeout(c)

\* C2: failure_threshold failing calls in a row from Closed(0) leave the
\* breaker Open, and success_threshold successful calls in a row from
\* HalfOpen(0) leave it Closed(0).
C2_ThresholdRuns ==
    \A h \in Hosts :
        /\ (streak[h].from = "Closed0" /\ streak[h].n = breaker_config.failure_threshold)
           => circuit_breakers[h].tag = "Open"
        /\ (streak[h].from = "HalfOpen0" /\ streak[h].n = breaker_config.success_threshold)
           => circuit_breakers[h] = Closed(0)

C2_Witness ==
    /\ breaker_config.failure_threshold > 1
    /\ breaker_config.success_threshold > 1
    /\ \E h1 \in Hosts, h2 \in Hosts :
          /\ streak[h1].from = "Closed0"
          /\ streak[h1].n = breaker_config.failure_threshold
          /\ streak[h2].from = "HalfOpen0"
          /\ streak[h2].n = breaker_config.success_threshold

\* C3: a call() whose admission finds the breaker Open with more than timeout
\* elapsed since opened_at moves it to HalfOpen(0) and starts the operation.
C3_TimedOutOpenProbes ==
    [][\A c \in Callers :
          (cpc[c] = "call" /\ cpc'[c] # "call" /\ OpenPastTimeout(c))
          => (circuit_breakers'[chost[c]] = HalfOpen(0) /\ cpc'[c] = "running")]_vars

C3_Witness ==
    \E c \in Callers : cpc[c] = "running" /\ circuit_breakers[chost[c]] = HalfOpen(0)

\* C4: a remote directive that the writer-pump receives for a host whose
\* breaker has been Open for longer than its timeout is admitted as a probe:
\* it is not answered with the circuit-open diagnostic.
C4_DirectiveProbesAfterTimeout ==
    [][\A g \in WsSessions :
          (cpc[g] = "connecting" /\ cpc'[g] # "connecting" /\ OpenPastTimeout(g))
          => (cpc'[g] = "call" /\ cres'[g] # "FailFast")]_vars

C24_OpenLeavesOnlyToHalfOpen ==
    [][\A h \in Hosts :
          (circuit_breakers[h].tag = "Open" /\ circuit_breakers'[h] # circuit_breakers[h])
          => /\ circuit_breakers'[h] = HalfOpen(0)
             /\ now - circuit_breakers[h].opened_at > breaker_config.timeout]_vars

EntryOf(k, s) ==
    {connections[k][i] : i \in {j \in DOMAIN connections[k] : connections[k][j].session = s}}

\* The same entry after the step.
EntryOfNext(k, s) ==
    {connections'[k][i] : i \in {j \in DOMAIN connections'[k] : connections'[k][j].session = s}}

Holding(c) == ppc[c] \in {"leased", "exec", "hung"}

\* C5: for each host key, the number of entries never exceeds
\* max_connections_per_host.
C5_AtMostMaxPerHost ==
    \A k \in Keys : Len(connections[k]) <= pool_config.max_connections_per_host

C5_Witness ==
    \E k \in Keys, c \in Clients :
        /\ Len(connections[k]) = pool_config.max_connections_per_host
        /\ pres[c] = "exhausted"

NoSharedSlot ==
    \A c \in Clients, d \in Clients :
        (c # d /\ Holding(c) /\ Holding(d) /\ lease[c].key = lease[d].key)
        => lease[c].slot # lease[d].slot

\* C7: a lease is exclusive: acquire never hands out an entry on which an
\* earlier lease is still outstanding, and no step clears the in-use flag of
\* the entry of a lease that is outstanding before and after the step.
C7_LeaseExclusive ==
    [][/\ NoSharedSlot'
       /\ \A c \in Clients :
             (Holding(c) /\ Holding(c)' /\ lease'[c] = lease[c])
             => \A e \in EntryOf(lease[c].key, lease[c].slot) :
                   e.in_use => \A f \in EntryOfNext(lease[c].key, lease[c].slot) : f.in_use]_vars

\* C8: an existing entry whose last-used age exceeds idle_timeout is never
\* handed out: no step turns an expired idle entry into an entry in use.
C8_ExpiredNeverReused ==
    [][\A k \in Keys : \A i \in DOMAIN connections[k] :
          (~connections[k][i].in_use
             /\ now - connections[k][i].last_used > pool_config.idle_timeout)
          => \A f \in EntryOfNext(k, connections[k][i].session) : ~f.in_use]_vars

\* An acquire has found an idle entry of its key expired and removed it, and
\* a lease of that key is held on an entry created later.
C8_Witness ==
    \E c \in Clients, p \in pruned_idle :
        /\ ppc[c] = "leased"
        /\ lease[c].key = p[1]
        /\ lease[c].slot > p[2]

\* C9: every dropped lease is followed by an entry of its key going back to
\* in_use = false: each release task that runs clears an in-use flag.
C9_ReleaseFreesAnEntry ==
    [][\A k \in Keys :
          pending_release'[k] < pending_release[k] => InUseCount(k)' < InUseCount(k)]_vars

\* C21: acquire does not hold the pool mutex while it creates a connection:
\* while one acquire is in create_connection, an acquire of another client,
\* for any key, and a release task can take their step.
C21_ConnectHoldsNoPoolLock ==
    \A c \in Clients : \A d \in Clients \ {c} :
        ppc[c] = "connecting"
        => /\ ppc[d] = "idle" => \A k \in Keys : ENABLED Acquire(d, k)
           /\ \A k \in Keys : pending_release[k] > 0 => ENABLED Release(k)

\* C26: the exec of a lease runs its command on the session of the entry
\* that acquire marked in use for this lease.
C26_ExecOnOwnSlot ==
    \A c \in Clients :
        ppc[c] \in {"exec", "hung"} => ExecSession(c) = lease[c].slot

\* C27: an entry whose in-use flag a step clears has its last_used set to
\* the time of that step.
C27_ReleaseRefreshesLastUsed ==
    [][\A k \in Keys : \A i \in DOMAIN connections[k] :
          connections[k][i].in_use
          => \A f \in EntryOfNext(k, connections[k][i].session) :
                ~f.in_use => f.last_used = now]_vars

\* C28: no acquire returns a lease on an entry on which an exec_with_timeout
\* has ended with the timeout.
C28_TimedOutEntryNotReused ==
    [][\A c \in Clients :
          (~Holding(c) /\ Holding(c)')
          => <<lease'[c].key, lease'[c].slot>> \notin timed_out]_vars

\* The step in which the acquire of client c returns the error of
\* create_connection.
MintFails(c) == ppc[c] = "connecting" /\ ppc'[c] = "idle"

\* C29 (as stated): when acquire fails while creating the connection, the
\* entries of every host key are those from before the call: the call has
\* removed none.
C29_FailedMintChangesNothing ==
    [][\A c \in Clients :
          MintFails(c)
          => /\ pres'[c] = "error"
             /\ connections' = connections
             /\ acquire_pruned[c] = 0]_vars

\* C29 (amended): when acquire fails while creating the connection it returns
\* an error and adds no entry: the entries of the key are those from before
\* the call without the expired ones, which the call removed at its start,
\* and the entries of the other keys are the same.
C29_FailedMintAddsNothing ==
    [][\A c \in Clients :
          /\ (ppc[c] = "idle" /\ ppc'[c] = "connecting")
             => /\ connections'[lease'[c].key] = Retain(connections[lease'[c].key])
                /\ \A k \in Keys \ {lease'[c].key} : connections'[k] = connections[k]
          /\ (ppc[c] = "connecting" /\ ppc'[c] = "connecting")
             => connections' = connections
          /\ MintFails(c)
             => /\ pres'[c] = "error"
                /\ next_session' = next_session
                /\ connections' = connections]_vars

\* An acquire has failed in create_connection after it had removed an
\* expired entry of its key.
C29_Witness ==
    \E c \in Clients :
        ppc[c] = "idle" /\ pres[c] = "error" /\ acquire_pruned[c] > 0

\* Every entry of conns is in use and there are max_connections_per_host.
Full(conns) ==
    /\ Len(conns) = pool_config.max_connections_per_host
    /\ \A i \in DOMAIN conns : conns[i].in_use

\* C30: an acquire that finds, after the prune, every entry of its key in use
\* and as many entries as max_connections_per_host returns the pool-exhausted
\* error in the same step: it waits for no lease and creates no connection.
C30_FullPoolFailsAtOnce ==
    [][\A c \in Clients, k \in Keys :
          (Acquire(c, k) /\ Full(Retain(connections[k])))
          => /\ pres'[c] = "exhausted" /\ ppc'[c] = "idle"
             /\ pool_lock' = NoOne
             /\ next_session' = next_session
             /\ connections'[k] = Retain(connections[k])]_vars

\* An acquire has failed as exhausted on the only key that has entries, with
\* two entries in use.
C30_Witness ==
    \E c \in Clients, k \in Keys :
        /\ ppc[c] = "idle" /\ pres[c] = "exhausted"
        /\ pool_config.max_connections_per_host > 1
        /\ Full(connections[k])
        /\ \A k2 \in Keys \ {k} : connections[k2] = <<>>
        /\ pruned_idle = {}

(***************************************************************************)
(* PTY manager: src/conversations/001-rebe-shell/backend/src/pty.rs        *)
(***************************************************************************)
NotFound == "NotFound"
Outcome(op, r) == [op |-> op, result |-> r]
NoOutcome == Outcome("none", "none")

\* The ids a caller can name: those spawn has returned, and 0 for any other uuid.
KnownIds == 0..(next_id - 1)

\* list_sessions
list_sessions == sessions

\* sessions.get(&id): the session is in the registry.
Found(id) == id \in sessions

\* sessions.remove(&id), in close
RemoveKept(id) == sessions

Remove(id) == sessions \ {id}

\* spawn: the PTY is opened, the shell is spawned and the session is inserted
\* under a new uuid; or opening the PTY or spawning the shell fails.
Spawn(u, ok) ==
    /\ tpc[u] = "idle"
    /\ IF ok
       THEN /\ next_id <= MaxSpawn
            /\ sessions' = sessions \cup {next_id}
            /\ next_id' = next_id + 1
            /\ tid' = [tid EXCEPT ![u] = next_id]
            /\ tres' = [tres EXCEPT ![u] = Outcome("spawn", "ok")]
       ELSE /\ tid' = [tid EXCEPT ![u] = 0]
            /\ tres' = [tres EXCEPT ![u] = Outcome("spawn", "error")]
            /\ UNCHANGED <<sessions, next_id>>
    /\ UNCHANGED <<now, auxVars, breakerVars, gwVars, poolVars, closed, tpc>>

\* write and read, the lookup under the registry lock: the handle is cloned
\* or the call fails with "Session not found".
IoBegin(u, op, id) ==
    /\ tpc[u] = "idle"
    /\ tid' = [tid EXCEPT ![u] = id]
    /\ IF Found(id)
       THEN /\ tpc' = [tpc EXCEPT ![u] = op]
            /\ tres' = [tres EXCEPT ![u] = Outcome(op, "pending")]
       ELSE /\ tpc' = tpc
            /\ tres' = [tres EXCEPT ![u] = Outcome(op, NotFound)]
    /\ UNCHANGED <<now, auxVars, breakerVars, gwVars, poolVars, sessions, next_id, closed>>

\* write and read, the blocking call on the cloned handle has ended.
IoEnd(u, ok) ==
    /\ tpc[u] \in {"write", "read"}
    /\ tpc' = [tpc EXCEPT ![u] = "idle"]
    /\ tres' = [tres EXCEPT ![u] = Outcome(tpc[u], IF ok THEN "ok" ELSE "error")]
    /\ UNCHANGED <<now, auxVars, breakerVars, gwVars, poolVars, sessions, next_id, closed, tid>>

\* resize, under the registry lock.
Resize(u, id, ok) ==
    /\ tpc[u] = "idle"
    /\ tid' = [tid EXCEPT ![u] = id]
    /\ tres' = [tres EXCEPT ![u] =
          Outcome("resize", IF ~Found(id) THEN NotFound ELSE IF ok THEN "ok" ELSE "error")]
    /\ UNCHANGED <<now, auxVars, breakerVars, gwVars, poolVars, sessions, next_id, closed, tpc>>

\* close: the session is removed (and its child killed); Ok in every case.
Close(u, id) ==
    /\ tpc[u] = "idle"
    /\ sessions' = Remove(id)
    /\ closed' = closed \cup {id}
    /\ tid' = [tid EXCEPT ![u] = id]
    /\ tres' = [tres EXCEPT ![u] = Outcome("close", "ok")]
    /\ UNCHANGED <<now, auxVars, breakerVars, gwVars, poolVars, next_id, tpc>>

InitPty ==
    /\ sessions = {}
    /\ next_id = 1
    /\ closed = {}
    /\ tpc = [u \in Users |-> "idle"]
    /\ tid = [u \in Users |-> 0]
    /\ tres = [u \in Users |-> NoOutcome]

NextPty ==
    \/ \E u \in Users, ok \in BOOLEAN : Spawn(u, ok)
    \/ \E u \in Users, op \in {"write", "read"} : \E id \in KnownIds : IoBegin(u, op, id)
    \/ \E u \in Users, ok \in BOOLEAN : IoEnd(u, ok)
    \/ \E u \in Users, ok \in BOOLEAN : \E id \in KnownIds : Resize(u, id, ok)
    \/ \E u \in Users : \E id \in KnownIds : Close(u, id)

(***************************************************************************)
(* The PTY manager of the desktop shell:                                   *)
(* src/conversations/001-rebe-shell/src-tauri/src/pty/mod.rs.  Its write   *)
(* and read make their blocking call on the session inside the critical    *)
(* section of the registry, so the registry lock is held from the lookup   *)
(* to the end of the call.                                                 *)
(***************************************************************************)
\* The registry lock is held by a write or a read in progress.
TauriRegistryHeld == \E u \in Users : tpc[u] \in {"write", "read"}

\* spawn: a failure comes before the lock is taken, the insert under it.
TauriSpawn(u, ok) == (ok => ~TauriRegistryHeld) /\ Spawn(u, ok)

\* write and read, from taking the registry lock to the blocking call.
TauriIoBegin(u, op, id) == ~TauriRegistryHeld /\ IoBegin(u, op, id)

\* resize: a placeholder that is Ok for every session found.
TauriResize(u, id) == ~TauriRegistryHeld /\ Resize(u, id, TRUE)

\* close
TauriClose(u, id) == ~TauriRegistryHeld /\ Close(u, id)

NextPtyTauri ==
    \/ \E u \in Users, ok \in BOOLEAN : TauriSpawn(u, ok)
    \/ \E u \in Users, op \in {"write", "read"} : \E id \in KnownIds : TauriIoBegin(u, op, id)
    \/ \E u \in Users, ok \in BOOLEAN : IoEnd(u, ok)
    \/ \E u \in Users : \E id \in KnownIds : TauriResize(u, id)
    \/ \E u \in Users : \E id \in KnownIds : TauriClose(u, id)

(***************************************************************************)
(* Properties of the PTY manager (checked under SpecPty; C23 under         *)
(* SpecPtyTauri).                                                          *)
(***************************************************************************)
\* The other one of write and read.
OtherIo(op) == IF op = "read" THEN "write" ELSE "read"

\* C23: while a read or a write on a session is in progress, the other of the
\* two can start on the same session, and close, spawn and an operation on
\* another session can take their step: the registry lock is not held.
C23_IoHoldsNoRegistryLock ==
    \A u \in Users : \A v \in Users \ {u} :
        (tpc[u] \in {"write", "read"} /\ tpc[v] = "idle")
        => /\ ENABLED TauriIoBegin(v, OtherIo(tpc[u]), tid[u])
           /\ \A id \in KnownIds : ENABLED TauriClose(v, id)
           /\ \A id \in KnownIds : ENABLED TauriIoBegin(v, "read", id)
           /\ next_id <= MaxSpawn => ENABLED TauriSpawn(v, TRUE)

\* User u starts a write, read or resize in this step.
Starts(u) ==
    /\ tpc[u] = "idle"
    /\ <<tpc'[u], tid'[u], tres'[u]>> # <<tpc[u], tid[u], tres[u]>>
    /\ tres'[u].op \in {"write", "read", "resize"}

\* C10: once close(id) has returned, id is not in list_sessions() and every
\* write, read or resize started on id fails with session-not-found.
C10_ClosedIsGone ==
    [][/\ \A id \in closed' : id \notin list_sessions'
       /\ \A u \in Users :
             (Starts(u) /\ tid'[u] \in closed)
             => (tpc'[u] = "idle" /\ tres'[u].result = NotFound)]_vars

C10_Witness ==
    \E u \in Users :
        /\ tid[u] \in closed /\ tid[u] >= 1
        /\ tres[u] = Outcome("write", NotFound)
        /\ sessions # {}

(***************************************************************************)
(* Session gateway: src/conversations/001-rebe-shell/backend/src/main.rs   *)
(* Text is a sequence of one-character strings.                            *)
(***************************************************************************)
MaxFrames == 2        \* at most MaxFrames input frames arrive on a connection
MaxSent == 2          \* at most MaxSent frames are sent on a connection

SessionCreators == {"u1"}  \* requests of POST /api/sessions

\* char::is_whitespace, for the characters of the model
Whitespace == {" ", "\n", "\r", "\t"}

RECURSIVE TrimStart(_)
TrimStart(s) ==
    IF s # <<>> /\ Head(s) \in Whitespace THEN TrimStart(Tail(s)) ELSE s

RECURSIVE TrimEnd(_)
TrimEnd(s) ==
    IF s # <<>> /\ s[Len(s)] \in Whitespace
    THEN TrimEnd(SubSeq(s, 1, Len(s) - 1))
    ELSE s

\* str::trim
Trim(s) == TrimEnd(TrimStart(s))

\* str::contains(ch)
Contains(s, ch) == \E i \in DOMAIN s : s[i] = ch

\* str::find(ch), from 1; 0 when ch is not in s
Find(s, ch) ==
    IF Contains(s, ch)
    THEN CHOOSE i \in DOMAIN s : s[i] = ch /\ \A j \in 1..(i - 1) : s[j] # ch
    ELSE 0

\* str::split(ch)
RECURSIVE Split(_, _)
Split(s, ch) ==
    LET i == Find(s, ch)
    IN IF i = 0
       THEN <<s>>
       ELSE <<SubSeq(s, 1, i - 1)>> \o Split(SubSeq(s, i + 1, Len(s)), ch)

\* str::starts_with
StartsWith(s, p) == Len(s) >= Len(p) /\ SubSeq(s, 1, Len(p)) = p

\* str::trim_matches(ch)
RECURSIVE TrimMatches(_, _)
TrimMatches(s, ch) ==
    IF s # <<>> /\ Head(s) = ch THEN TrimMatches(Tail(s), ch)
    ELSE IF s # <<>> /\ s[Len(s)] = ch THEN TrimMatches(SubSeq(s, 1, Len(s) - 1), ch)
    ELSE s

Digit == ("0" :> 0) @@ ("1" :> 1) @@ ("2" :> 2) @@ ("3" :> 3) @@ ("4" :> 4) @@
         ("5" :> 5) @@ ("6" :> 6) @@ ("7" :> 7) @@ ("8" :> 8) @@ ("9" :> 9)

\* The number a string of digits stands for.
RECURSIVE DecimalValue(_)
DecimalValue(s) ==
    IF s = <<>> THEN 0
    ELSE 10 * DecimalValue(SubSeq(s, 1, Len(s) - 1)) + Digit[s[Len(s)]]

\* host_port[colon_idx + 1..].parse().unwrap_or(22), a u16
ParsePort(s) ==
    IF s # <<>> /\ (\A i \in DOMAIN s : s[i] \in DOMAIN Digit) /\ DecimalValue(s) < 65536
    THEN DecimalValue(s)
    ELSE 22

\* u16 Display
RECURSIVE ToDecimal(_)
ToDecimal(n) ==
    LET d == CHOOSE c \in DOMAIN Digit : Digit[c] = n % 10
    IN IF n < 10 THEN <<d>> ELSE ToDecimal(n \div 10) \o <<d>>

NoCommand == [tag |-> "None"]

\* parse_ssh_command
parse_ssh_command(input) ==
    LET sp == Find(input, " ")
        user_host_port == SubSeq(input, 1, sp - 1)
        command == TrimMatches(SubSeq(input, sp + 1, Len(input)), "\"")
        at_parts == Split(user_host_port, "@")
        host_port == at_parts[2]
        colon_idx == Find(host_port, ":")
    IN IF sp = 0 THEN NoCommand
       ELSE IF Len(at_parts) # 2 THEN NoCommand
       ELSE [tag |-> "SSH",
             host |-> IF colon_idx = 0 THEN host_port
                      ELSE SubSeq(host_port, 1, colon_idx - 1),
             port |-> IF colon_idx = 0 THEN 22
                      ELSE ParsePort(SubSeq(host_port, colon_idx + 1, Len(host_port))),
             user |-> at_parts[1],
             command |-> command]

\* parse_command
parse_command(input) ==
    LET trimmed == Trim(input)
        parsed == parse_ssh_command(SubSeq(trimmed, 5, Len(trimmed)))
    IN IF StartsWith(trimmed, <<"s", "s", "h", " ">>) /\ parsed # NoCommand
       THEN parsed
       ELSE [tag |-> "Local", input |-> input]

\* format!("ssh {}@{}:{} \"{}\"\r\n", user, host, port, command)
EchoText(cmd) ==
    <<"s", "s", "h", " ">> \o cmd.user \o <<"@">> \o cmd.host \o <<":">>
        \o ToDecimal(cmd.port) \o <<" ", "\"">> \o cmd.command \o <<"\"", "\r", "\n">>

\* process_command, Local: the input with a newline at its end
WithNewline(input) ==
    IF input # <<>> /\ input[Len(input)] = "\n" THEN input ELSE Append(input, "\n")

\* The characters of the host names.
HostText == ("h1" :> <<"h", "1">>) @@ ("h2" :> <<"h", "2">>)

\* The host a directive names, as the key of circuit_breakers.
HostOf(text) == CHOOSE h \in Hosts : HostText[h] = text

GwHosts == {"h1"}          \* the hosts that the directives of the model name

\* A remote directive for host h, as one line of input.
DirectiveLine(h) ==
    <<"s", "s", "h", " ", "u", "@">> \o HostText[h] \o <<" ", "c", "\n">>

\* The decoded payloads of the input frames of the model.
InputPayloads ==
    {<<"l">>, <<"\n">>, <<"\n", "l">>, <<" ", "l", "\n">>}
        \cup {DirectiveLine(h) : h \in GwHosts}

\* ServerMessage::Connected and ServerMessage::Output
connected_msg_wrong(id) == [type |-> "output", session_id |-> id]

connected_msg(id) == [type |-> "connected", session_id |-> id]

\* (the data of an output frame is left out)
output_msg == [type |-> "output", session_id |-> 0]

\* sender.send(frame): the frames sent after it; a send on a websocket whose
\* client is gone fails.
SendOn(g, frame) == IF sock[g] = "open" THEN Append(sent[g], frame) ELSE sent[g]

\* pty_manager.write(session_id, data) by the writer-pump of g, as an entry of
\* the transcript; ok tells whether the write succeeded.
PtyWrite(g, kind, data, ok) ==
    [transcript EXCEPT ![g] = Append(@, [kind |-> kind, data |-> data, ok |-> ok])]

\* A write can succeed only on a session of the registry whose PTY has not
\* failed a write before.
CanWrite(g, ok) ==
    ok => (Found(wsid[g]) /\ \A i \in DOMAIN transcript[g] : transcript[g][i].ok)

\* The match of handle_ssh_command on the outcome of the remote call: the kind
\* of line that is written.
DiagnosticLost(outcome) ==
    IF outcome = "Ok" THEN "result" ELSE "none"

Diagnostic(outcome) ==
    IF outcome = "Ok" THEN "result"
    ELSE IF outcome = "Open" THEN "open"
    ELSE IF outcome = "FailFast" THEN "failfast"
    ELSE "error"

\* The directive that the writer-pump of g is processing.
Directive(g) == parse_command(Trim(Head(lines[g])))

\* websocket_handler: a client connects to /ws/:session_id with a uuid.
Connect(g, id) ==
    /\ hpc[g] = "idle"
    /\ hpc' = [hpc EXCEPT ![g] = "handshake"]
    /\ wsid' = [wsid EXCEPT ![g] = id]
    /\ UNCHANGED <<now, auxVars, breakerVars, poolVars, ptyVars, sock, sent, spc, rpc,
                   command_buffer, lines, received, nframes, transcript>>

\* The client goes away: the websocket is broken from now on.
ClientGone(g) ==
    /\ hpc[g] \in {"handshake", "pumping"}
    /\ sock[g] = "open"
    /\ sock' = [sock EXCEPT ![g] = "broken"]
    /\ UNCHANGED <<now, auxVars, breakerVars, poolVars, ptyVars, hpc, wsid, sent, spc, rpc,
                   command_buffer, lines, received, nframes, transcript>>

\* handle_websocket, up to select!: the connected frame is sent (a failure of
\* the send is ignored) and the two pumps are spawned.
Handshake(g) ==
    /\ hpc[g] = "handshake"
    /\ sent' = [sent EXCEPT ![g] = SendOn(g, connected_msg(wsid[g]))]
    /\ hpc' = [hpc EXCEPT ![g] = "pumping"]
    /\ spc' = [spc EXCEPT ![g] = "running"]
    /\ rpc' = [rpc EXCEPT ![g] = "recv"]
    /\ UNCHANGED <<now, auxVars, breakerVars, poolVars, ptyVars, wsid, sock,
                   command_buffer, lines, received, nframes, transcript>>

\* send_task, one turn of the loop: data is read and sent as an output frame
\* (the pump ends when the send fails), or the read meets the end of the
\* stream of a child that has exited, which read() returns as no data and the
\* loop passes over, or the read fails and the pump ends.
SendPump(g, r) ==
    /\ hpc[g] = "pumping"
    /\ spc[g] = "running"
    /\ IF r = "data"
       THEN /\ Found(wsid[g])
            /\ IF sock[g] = "open"
               THEN /\ Len(sent[g]) < MaxSent
                    /\ sent' = [sent EXCEPT ![g] = SendOn(g, output_msg)]
                    /\ spc' = spc
               ELSE /\ spc' = [spc EXCEPT ![g] = "ended"]
                    /\ sent' = sent
            /\ eof' = eof
       ELSE IF r = "eof"
       THEN /\ Found(wsid[g])
            /\ wsid[g] \in exited
            /\ eof' = eof \cup {wsid[g]}
            /\ UNCHANGED <<spc, sent>>
       ELSE /\ spc' = [spc EXCEPT ![g] = "ended"]
            /\ sent' = sent
            /\ eof' = eof
    /\ UNCHANGED <<now, exited, counted, streamVars, parseVars, breakerVars, poolVars,
                   ptyVars, hpc, wsid, sock, rpc, command_buffer, lines, received, nframes,
                   transcript>>

\* The child process of session id exits on its own.
ChildExit(id) ==
    /\ Found(id)
    /\ id \notin exited
    /\ exited' = exited \cup {id}
    /\ UNCHANGED <<now, eof, counted, streamVars, parseVars, breakerVars, poolVars,
                   ptyVars, gwVars>>

\* recv_task, an input frame with payload p: it is appended to command_buffer;
\* with a newline in the buffer the buffer is split into lines, else the
\* payload is written to the PTY (the pump ends when the write fails).
RecvInput(g, p, ok) ==
    /\ hpc[g] = "pumping"
    /\ rpc[g] = "recv"
    /\ sock[g] = "open"
    /\ nframes[g] < MaxFrames
    /\ nframes' = [nframes EXCEPT ![g] = @ + 1]
    /\ received' = [received EXCEPT ![g] = @ \o p]
    /\ command_buffer' = [command_buffer EXCEPT ![g] = @ \o p]
    /\ IF Contains(command_buffer'[g], "\n")
       THEN /\ ok
            /\ lines' = [lines EXCEPT ![g] = Split(command_buffer'[g], "\n")]
            /\ rpc' = [rpc EXCEPT ![g] = "lines"]
            /\ transcript' = transcript
       ELSE /\ CanWrite(g, ok)
            /\ transcript' = PtyWrite(g, "bytes", p, ok)
            /\ rpc' = [rpc EXCEPT ![g] = IF ok THEN "recv" ELSE "ended"]
            /\ lines' = lines
    /\ UNCHANGED <<now, auxVars, breakerVars, poolVars, ptyVars, hpc, wsid, sock, sent, spc>>

\* recv_task, a Close frame or the end of the stream: the pump ends.
RecvClose(g) ==
    /\ hpc[g] = "pumping"
    /\ rpc[g] = "recv"
    /\ rpc' = [rpc EXCEPT ![g] = "ended"]
    /\ UNCHANGED <<now, auxVars, breakerVars, poolVars, ptyVars, hpc, wsid, sock, sent, spc,
                   command_buffer, lines, received, nframes, transcript>>

\* recv_task, one turn of the loop over the lines: the last element goes back
\* to command_buffer; a blank line is skipped; process_command writes a local
\* line with its newline, or the echo of a remote directive (an error of
\* process_command is logged and the loop goes on).
NextLine(g, ok) ==
    /\ hpc[g] = "pumping"
    /\ rpc[g] = "lines"
    /\ IF Len(lines[g]) = 1
       THEN /\ ok
            /\ command_buffer' = [command_buffer EXCEPT ![g] = lines[g][1]]
            /\ lines' = [lines EXCEPT ![g] = <<>>]
            /\ rpc' = [rpc EXCEPT ![g] = "recv"]
            /\ transcript' = transcript
       ELSE /\ command_buffer' = command_buffer
            /\ IF Trim(Head(lines[g])) = <<>>
               THEN /\ ok
                    /\ lines' = [lines EXCEPT ![g] = Tail(@)]
                    /\ UNCHANGED <<rpc, transcript>>
               ELSE /\ CanWrite(g, ok)
                    /\ IF Directive(g).tag = "Local"
                       THEN /\ transcript' =
                                PtyWrite(g, "bytes", WithNewline(Directive(g).input), ok)
                            /\ lines' = [lines EXCEPT ![g] = Tail(@)]
                            /\ rpc' = rpc
                       ELSE /\ transcript' = PtyWrite(g, "echo", EchoText(Directive(g)), ok)
                            /\ IF ok
                               THEN /\ rpc' = [rpc EXCEPT ![g] = "echoed"]
                                    /\ lines' = lines
                               ELSE /\ rpc' = rpc
                                    /\ lines' = [lines EXCEPT ![g] = Tail(@)]
    /\ UNCHANGED <<now, auxVars, breakerVars, poolVars, ptyVars, hpc, wsid, sock, sent, spc,
                   received, nframes>>

\* handle_ssh_command, the status line: when its write fails the directive
\* ends with the error.
GwStatus(g, ok) ==
    /\ hpc[g] = "pumping"
    /\ rpc[g] = "echoed"
    /\ cpc[g] = "connecting"
    /\ CanWrite(g, ok)
    /\ transcript' = PtyWrite(g, "status", Directive(g).host, ok)
    /\ IF ok
       THEN /\ rpc' = [rpc EXCEPT ![g] = "remote"]
            /\ UNCHANGED <<lines, cpc>>
       ELSE /\ rpc' = [rpc EXCEPT ![g] = "lines"]
            /\ lines' = [lines EXCEPT ![g] = Tail(@)]
            /\ cpc' = [cpc EXCEPT ![g] = "idle"]
    /\ UNCHANGED <<now, auxVars, poolVars, ptyVars, breaker_config, circuit_breakers, chost,
                   cres, streak, hpc, wsid, sock, sent, spc, command_buffer,
                   received, nframes>>

\* handle_ssh_command, the end: the result of the command or the diagnostic of
\* its failure is written, and the directive is done.
GwResult(g, ok) ==
    /\ hpc[g] = "pumping"
    /\ rpc[g] = "remote"
    /\ cpc[g] = "idle"
    /\ CanWrite(g, ok)
    /\ transcript' = PtyWrite(g, Diagnostic(cres[g]), Directive(g).host, ok)
    /\ rpc' = [rpc EXCEPT ![g] = "lines"]
    /\ lines' = [lines EXCEPT ![g] = Tail(@)]
    /\ UNCHANGED <<now, auxVars, breakerVars, poolVars, ptyVars, hpc, wsid, sock, sent, spc,
                   command_buffer, received, nframes>>

\* JoinHandle::abort: a task that has ended stays as it is.
AbortNothing(pc) == pc

Abort(pc) == IF pc = "ended" THEN pc ELSE "aborted"

\* handle_websocket, select!: one pump has ended and the other is aborted;
\* a directive in progress is dropped where it stands.
Join(g) ==
    /\ hpc[g] = "pumping"
    /\ spc[g] = "ended" \/ rpc[g] = "ended"
    /\ spc' = [spc EXCEPT ![g] = Abort(@)]
    /\ rpc' = [rpc EXCEPT ![g] = Abort(@)]
    /\ cpc' = [cpc EXCEPT ![g] = "idle"]
    /\ hpc' = [hpc EXCEPT ![g] = "closing"]
    /\ UNCHANGED <<now, auxVars, poolVars, ptyVars, breaker_config, circuit_breakers, chost,
                   cres, streak, wsid, sock, sent, command_buffer, lines, received,
                   nframes, transcript>>

\* handle_websocket, the end: the session is closed.
GwClose(g) ==
    /\ hpc[g] = "closing"
    /\ sessions' = Remove(wsid[g])
    /\ closed' = closed \cup {wsid[g]}
    /\ hpc' = [hpc EXCEPT ![g] = "done"]
    /\ UNCHANGED <<now, auxVars, breakerVars, poolVars, next_id, tpc, tid, tres, wsid, sock,
                   sent, spc, rpc, command_buffer, lines, received, nframes,
                   transcript>>

InitGateway ==
    /\ hpc = [g \in WsClients |-> "idle"]
    /\ wsid = [g \in WsClients |-> 0]
    /\ sock = [g \in WsClients |-> "open"]
    /\ sent = [g \in WsClients |-> <<>>]
    /\ spc = [g \in WsClients |-> "none"]
    /\ rpc = [g \in WsClients |-> "none"]
    /\ command_buffer = [g \in WsClients |-> <<>>]
    /\ lines = [g \in WsClients |-> <<>>]
    /\ received = [g \in WsClients |-> <<>>]
    /\ nframes = [g \in WsClients |-> 0]
    /\ transcript = [g \in WsClients |-> <<>>]

NextGateway ==
    \/ \E u \in SessionCreators, ok \in BOOLEAN : Spawn(u, ok)
    \/ \E g \in WsSessions : \E id \in KnownIds : Connect(g, id)
    \/ \E g \in WsSessions : ClientGone(g)
    \/ \E g \in WsSessions : Handshake(g)
    \/ \E g \in WsSessions, r \in {"data", "error"} : SendPump(g, r)
    \/ \E g \in WsSessions, p \in InputPayloads, ok \in BOOLEAN : RecvInput(g, p, ok)
    \/ \E g \in WsSessions : RecvClose(g)
    \/ \E g \in WsSessions, ok \in BOOLEAN : NextLine(g, ok)
    \/ \E g \in WsSessions :
          rpc[g] = "echoed" /\ HandleSshCommand(g, HostOf(Directive(g).host))
    \/ \E g \in WsSessions, ok \in BOOLEAN : GwStatus(g, ok)
    \/ \E g \in WsSessions : rpc[g] = "remote" /\ CheckIsOpen(g)
    \/ \E g \in WsSessions : rpc[g] = "remote" /\ CallAdmit(g)
    \/ \E g \in WsSessions, ok \in BOOLEAN : rpc[g] = "remote" /\ CallComplete(g, ok)
    \/ \E g \in WsSessions, ok \in BOOLEAN : GwResult(g, ok)
    \/ \E g \in WsSessions : Join(g)
    \/ \E g \in WsSessions : GwClose(g)

(***************************************************************************)
(* Properties of the gateway (checked under SpecGateway).                  *)
(***************************************************************************)
\* C11: every session id that spawn has returned, those of the
\* session-creation endpoint included, is eventually closed and removed from
\* the registry.
C11_SpawnedEventuallyClosed ==
    \A id \in 1..MaxSpawn : (id \in sessions) ~> (id \in closed /\ id \notin sessions)

\* C14: on every connection the first frame the gateway sends is the
\* connected frame with the session id; no output or error frame precedes it.
C14_ConnectedFirst ==
    \A g \in WsSessions : \A i \in DOMAIN sent[g] :
        sent[g][i].type \in {"output", "error"}
        => (i > 1 /\ sent[g][1] = [type |-> "connected", session_id |-> wsid[g]])

C14_Witness ==
    \E g \in WsSessions :
        /\ wsid[g] \in sessions
        /\ Len(sent[g]) = 2
        /\ sent[g][2].type = "output"

\* Neither pump of connection g runs any more.
PumpsStopped(g) ==
    spc[g] \in {"ended", "aborted"} /\ rpc[g] \in {"ended", "aborted"}

\* C15: when a pump of a connection has ended, select! can go on and abort
\* the other and the handler can then close the session (under the fairness
\* of SpecGateway it does); once the handler is past select! neither pump
\* runs, and once it has finished the session id of the connection is not in
\* the registry.
C15_JoinThenTeardown ==
    \A g \in WsSessions :
        /\ (hpc[g] = "pumping" /\ (spc[g] = "ended" \/ rpc[g] = "ended"))
           => ENABLED Join(g)
        /\ hpc[g] \in {"closing", "done"} => PumpsStopped(g)
        /\ hpc[g] = "closing" => ENABLED GwClose(g)
        /\ hpc[g] = "done" => wsid[g] \notin list_sessions

C15_Witness ==
    \E g \in WsSessions :
        /\ hpc[g] = "done"
        /\ wsid[g] \in closed /\ wsid[g] >= 1
        /\ spc[g] = "ended" /\ rpc[g] = "aborted"
        /\ transcript[g] # <<>>

\* The bytes of the writes of connection g that the PTY has taken, in order.
RECURSIVE Joined(_)
Joined(t) ==
    IF t = <<>> THEN <<>>
    ELSE (IF Head(t).ok THEN Head(t).data ELSE <<>>) \o Joined(Tail(t))

\* No line of the text is a remote directive.
NoDirective(text) ==
    \A i \in DOMAIN Split(text, "\n") :
        parse_command(Trim(Split(text, "\n")[i])).tag = "Local"

\* Every write of connection g so far has succeeded.
AllWritten(g) == \A i \in DOMAIN transcript[g] : transcript[g][i].ok

\* C12: for a session whose input holds no remote directive, once the
\* writer-pump has processed the frames it has received, the bytes written to
\* the PTY are the payloads of the frames joined in order: each byte once.
C12_InputReachesPtyOnce ==
    \A g \in WsSessions :
        (rpc[g] = "recv" /\ NoDirective(received[g]) /\ AllWritten(g))
        => Joined(transcript[g]) = received[g]

\* The kinds of line that answer a remote directive.
Answers == {"result", "open", "failfast", "error"}

\* The writes of transcript t that the PTY has taken.
Taken(t) == SelectSeq(t, LAMBDA w : w.ok)

\* In t every answer follows an echo, with no other answer between the two.
AnswersFollowEcho(t) ==
    \A j \in DOMAIN t :
        t[j].kind \in Answers
        => (j > 1 /\ (t[j - 1].kind = "echo"
                        \/ (t[j - 1].kind = "status" /\ j > 2 /\ t[j - 2].kind = "echo")))

\* In t every echo is followed by an answer, before any other echo.
EchoesAnswered(t) ==
    \A i \in DOMAIN t :
        t[i].kind = "echo"
        => \E j \in (i + 1)..Len(t) :
              /\ t[j].kind \in Answers
              /\ \A n \in (i + 1)..(j - 1) : t[n].kind # "echo"

\* C13: the transcript never holds the answer of a remote directive without
\* its echo before it, and when the writer-pump is not at work on a directive
\* every echo of the transcript is followed by the result of its command or by
\* a diagnostic.
C13_EchoAndAnswerPaired ==
    \A g \in WsSessions :
        /\ AnswersFollowEcho(Taken(transcript[g]))
        /\ rpc[g] \notin {"echoed", "remote"} => EchoesAnswered(Taken(transcript[g]))

\* The outcomes of a remote directive that are failures.
RemoteFailures == {"FailFast", "Open", "OperationFailed"}

\* C16: a remote failure does not end the writer-pump: the step that handles
\* it issues the write of its diagnostic to the PTY and goes on with the lines
\* of the input, and the pump ends only from where it waits for a frame.
C16_RemoteFailureKeepsPump ==
    [][\A g \in WsSessions :
          /\ (rpc[g] = "remote" /\ cpc[g] = "idle" /\ cres[g] \in RemoteFailures
                 /\ rpc'[g] # rpc[g] /\ hpc'[g] = "pumping")
             => /\ rpc'[g] = "lines"
                /\ Len(transcript'[g]) = Len(transcript[g]) + 1
                /\ transcript'[g][Len(transcript'[g])].kind \in Answers \ {"result"}
          /\ (rpc'[g] = "ended" /\ rpc[g] # "ended") => rpc[g] = "recv"]_vars

\* A diagnostic is in the transcript and after it the bytes of a later frame.
C16_Witness ==
    \E g \in WsSessions : \E i \in DOMAIN transcript[g] :
        /\ transcript[g][i].kind \in {"failfast", "error"}
        /\ transcript[g][i].ok
        /\ i < Len(transcript[g])
        /\ transcript[g][Len(transcript[g])].kind = "bytes"
        /\ transcript[g][Len(transcript[g])].ok
        /\ rpc[g] = "recv"

(***************************************************************************)
(* Properties of remote execution (checked under SpecExec; C18 under       *)
(* SpecPool).                                                              *)
(***************************************************************************)
\* C17: every call of exec_with_timeout returns, with the output, an error or
\* the timeout error, also when the remote command never completes.
C17_ExecReturns ==
    \A c \in Clients : (ppc[c] \in {"exec", "hung"}) ~> (ppc[c] = "leased")

\* C18: with max_connections_per_host = 1, an acquire for a key whose single
\* entry was made for a lease that has since been dropped reuses that entry:
\* it returns a lease, creates no connection and leaves the one entry.
C18_SecondAcquireReuses ==
    [][\A c \in Clients, k \in Keys :
          (/\ pool_config.max_connections_per_host = 1
           /\ Len(connections[k]) = 1
           /\ Outstanding(k) = 0
           /\ Acquire(c, k))
          => /\ pres'[c] = "ok" /\ ppc'[c] = "leased"
             /\ Len(connections'[k]) = 1
             /\ connections'[k][1].session = connections[k][1].session]_vars

\* C19: while the exec of one lease is in progress another lease can start
\* its exec, a client without a lease can acquire one, and a release task
\* can run.
C19_ExecInParallel ==
    \A c \in Clients : \A d \in Clients \ {c} :
        ppc[c] = "exec"
        => /\ ppc[d] = "leased" => ENABLED ExecBegin(d, FALSE)
           /\ ppc[d] = "idle" => ENABLED (\E k \in Keys : Acquire(d, k))
           /\ \A k \in Keys : pending_release[k] > 0 => ENABLED Release(k)

\* C20: no exec returns Ok with a stdout longer than max_size: for such a
\* stdout the execution ends with the too-large error.
C20_OversizedOutputIsError ==
    \A c \in Clients : ~(pres[c] = "ok" /\ output[c] > MaxSize)

\* The part of the frame that the writer-pump of g has just processed which
\* follows the last newline of the frame: what goes back to command_buffer
\* after the lines, or the whole payload of a frame without a newline.
TrailingFragment(g) ==
    IF rpc[g] = "lines"
    THEN command_buffer'[g]
    ELSE SubSeq(received'[g], Len(received[g]) + 1, Len(received'[g]))

\* C31: the bytes of a frame that no newline terminates yet are written to the
\* PTY when the frame is processed, the fragment after the last newline of a
\* frame included.
C31_FragmentWritten ==
    [][\A g \in WsSessions :
          (/\ rpc'[g] = "recv"
           /\ rpc[g] = "lines" \/ nframes'[g] # nframes[g]
           /\ TrailingFragment(g) # <<>>)
          => /\ transcript'[g] # <<>>
             /\ transcript'[g][Len(transcript'[g])].kind = "bytes"
             /\ transcript'[g][Len(transcript'[g])].data = TrailingFragment(g)]_vars

\* C32: every complete line that is not a remote directive is written to the
\* PTY as its bytes followed by a newline: nothing is stripped, altered or
\* dropped.
C32_LocalLineWrittenVerbatim ==
    [][\A g \in WsSessions :
          (/\ rpc[g] = "lines"
           /\ Len(lines[g]) > 1
           /\ parse_command(Head(lines[g])).tag = "Local"
           /\ lines'[g] = Tail(lines[g]))
          => /\ Len(transcript'[g]) = Len(transcript[g]) + 1
             /\ transcript'[g][Len(transcript'[g])].data =
                    Append(Head(lines[g]), "\n")]_vars

\* C33: a write to the PTY that fails during local routing, of a partial line
\* or of a complete local line, ends the writer-pump.
C33_LocalWriteFailureEndsPump ==
    [][\A g \in WsSessions :
          (/\ Len(transcript'[g]) = Len(transcript[g]) + 1
           /\ transcript'[g][Len(transcript'[g])].kind = "bytes"
           /\ ~transcript'[g][Len(transcript'[g])].ok)
          => rpc'[g] = "ended"]_vars

\* C34: when the reader-pump stops on a read error of the PTY while the
\* client is still there, an error frame is sent before the pump ends.
C34_ErrorFrameOnReadError ==
    [][\A g \in WsSessions :
          (spc[g] = "running" /\ spc'[g] = "ended" /\ sock[g] = "open")
          => /\ Len(sent'[g]) = Len(sent[g]) + 1
             /\ sent'[g][Len(sent'[g])].type = "error"]_vars

\* The gateway beside sessions whose child may exit on its own.
NextChild ==
    \/ NextGateway
    \/ \E id \in KnownIds : ChildExit(id)
    \/ \E g \in WsSessions : SendPump(g, "eof")

\* C36: when the child of a session exits on its own and the reader-pump of
\* its connection meets the end of the stream, the pumps end and the session
\* is eventually removed from the registry.
C36_ExitedSessionDestroyed ==
    \A id \in 1..MaxSpawn : (id \in eof /\ id \in sessions) ~> (id \notin sessions)

(***************************************************************************)
(* parse_command on the lines that process_command gives it: trimmed and   *)
(* not empty.                                                              *)
(***************************************************************************)
MaxToken == 5         \* the token after "ssh " has 1..MaxToken characters

TokenChars == {"u", "h", "@", ":", "2"}

Tokens == UNION {[1..n -> TokenChars] : n \in 1..MaxToken}

\* What follows the token: nothing, a command, a command in double quotes.
Remainders == {<<>>, <<" ", "c">>, <<" ", "\"", "c", "\"">>}

ParseInputs ==
    {<<"s", "s", "h", " ">> \o t \o r : t \in Tokens, r \in Remainders}
        \cup {<<"l">>, <<"s", "s", "h">>, <<"l", " ", "u", "@", "h", " ", "c">>}

\* process_command: the line is classified.
ParseCommand ==
    /\ parse_output = NoCommand
    /\ parse_output' = parse_command(parse_input)
    /\ UNCHANGED <<now, breakerVars, poolVars, ptyVars, gwVars, exited, eof, counted,
                   streamVars, parse_input>>

NextParse == ParseCommand

\* The port that a text names: a decimal number in the range of a port.
IsPort(s) ==
    s # <<>> /\ (\A i \in DOMAIN s : s[i] \in DOMAIN Digit) /\ DecimalValue(s) < 65536

\* The token has the form user@host or user@host:port (one "@"; after it at
\* most one ":", followed by a port when it is followed by anything).
HasUserHostForm(tok) ==
    /\ Cardinality({i \in DOMAIN tok : tok[i] = "@"}) = 1
    /\ LET hp == SubSeq(tok, Find(tok, "@") + 1, Len(tok))
           port == SubSeq(hp, Find(hp, ":") + 1, Len(hp))
       IN Contains(hp, ":") => (port = <<>> \/ IsPort(port))

\* The classification of a line as the sentence of the specification gives it.
Classified(line) ==
    LET rest == SubSeq(line, 5, Len(line))
        sp == Find(rest, " ")
        tok == SubSeq(rest, 1, sp - 1)
        remainder == SubSeq(rest, sp + 1, Len(rest))
        at == Find(tok, "@")
        hp == SubSeq(tok, at + 1, Len(tok))
        colon == Find(hp, ":")
        port == SubSeq(hp, colon + 1, Len(hp))
    IN IF StartsWith(line, <<"s", "s", "h", " ">>) /\ sp # 0 /\ HasUserHostForm(tok)
       THEN [tag |-> "SSH",
             host |-> IF colon = 0 THEN hp ELSE SubSeq(hp, 1, colon - 1),
             port |-> IF colon = 0 \/ port = <<>> THEN 22 ELSE DecimalValue(port),
             user |-> SubSeq(tok, 1, at - 1),
             command |-> TrimMatches(remainder, "\"")]
       ELSE [tag |-> "Local", input |-> line]

\* C35: a line is Remote exactly when, after "ssh ", its first token has the
\* form user@host or user@host:port and a remainder follows; the command is
\* the remainder without its leading and trailing double quotes, the port is
\* the given port or 22 when none is given; every other line is Local.
C35_ClassifiedAsSpecified ==
    parse_output # NoCommand => parse_output = Classified(parse_input)

\* The connections of several clients: sessions are created, clients connect
\* to /ws/:session_id with the ids they know, type partial input and leave.
OwnerPayloads == {<<"l">>}

NextOwners ==
    \/ \E u \in SessionCreators, ok \in BOOLEAN : Spawn(u, ok)
    \/ \E g \in WsClients : \E id \in KnownIds : Connect(g, id)
    \/ \E g \in WsClients : ClientGone(g)
    \/ \E g \in WsClients : Handshake(g)
    \/ \E g \in WsClients, r \in {"data", "error"} : SendPump(g, r)
    \/ \E g \in WsClients, p \in OwnerPayloads, ok \in BOOLEAN : RecvInput(g, p, ok)
    \/ \E g \in WsClients : RecvClose(g)
    \/ \E g \in WsClients : Join(g)
    \/ \E g \in WsClients : GwClose(g)

\* C37: a session is used only by the one connection that owns it: the
\* teardown of a connection never closes a session on which another
\* connection is pumping.
C37_TeardownSparesOtherConnections ==
    [][\A g \in WsClients : \A h \in WsClients \ {g} :
          (/\ hpc[h] = "closing" /\ hpc'[h] = "done"
           /\ hpc[g] = "pumping"
           /\ wsid[g] \in sessions)
          => wsid[g] \in sessions']_vars

\* C39: the prune of acquire removes only idle entries: an entry that is in
\* use is never removed from the pool.
C39_InUseEntryNeverPruned ==
    [][\A k \in Keys : \A i \in DOMAIN connections[k] :
          connections[k][i].in_use =>
              \E j \in DOMAIN connections'[k] :
                  connections'[k][j].session = connections[k][i].session]_vars

(***************************************************************************)
(* The remote call of handle_ssh_command: the operation given to call()    *)
(* acquires a lease from the pool and runs the command on it.              *)
(***************************************************************************)
\* HostKey::new(host, port, user) of the directives for each host
KeyOf == ("h1" :> "k1") @@ ("h2" :> "k2")

\* The task of the pool that runs the operation dispatched for g.
OperationClient(g) == "a"

\* The match of call() on the result of the operation with the exhausted
\* pool taken for a success.
OperationOkUnlessExhausted(res) == res \in {"ok", "exhausted"}

\* The match of call() on the result of the operation: Ok(value) or Err(e).
OperationOk(res) == res = "ok"

\* The async block has its result: acquire has returned an error through `?`,
\* or exec_with_timeout has returned.
OperationDone(a) ==
    \/ ppc[a] = "idle" /\ pres[a] \in {"exhausted", "error"}
    \/ ppc[a] = "leased" /\ (pres[a] = "error" \/ output[a] > 0)

\* The kind of the error that the operation returns.
ErrorKind(a) ==
    IF pres[a] = "exhausted" THEN "exhausted"
    ELSE IF ppc[a] = "idle" THEN "connect"
    ELSE "exec"

\* The operation, state.ssh_pool.acquire(key, &key_path)
OpAcquire(g) ==
    /\ cpc[g] = "running"
    /\ pres[OperationClient(g)] = "none"
    /\ Acquire(OperationClient(g), KeyOf[chost[g]])

\* The operation, the end of create_connection inside acquire
OpConnect(g, ok) ==
    /\ cpc[g] = "running"
    /\ AcquireConnect(OperationClient(g), ok)

\* The operation, conn.exec_with_timeout(command, 30 s), from taking the lock
OpExecBegin(g) ==
    /\ cpc[g] = "running"
    /\ pres[OperationClient(g)] = "ok"
    /\ output[OperationClient(g)] = 0
    /\ ExecBegin(OperationClient(g), FALSE)

\* The operation, the remote command has ended: with exit status 0 and its
\* stdout (ok), or with a non-zero exit status or an error of the channel.
OpExecEnd(g, ok) ==
    /\ cpc[g] = "running"
    /\ ExecEnd(OperationClient(g), ok, 1)

\* The end of the operation and the second critical section of call(): the
\* lease (if acquire returned one) is dropped with the block, and the breaker
\* of the host is updated from the result.
OperationReturn(g) ==
    LET a == OperationClient(g)
        h == chost[g]
        ok == OperationOk(pres[a])
    IN /\ cpc[g] = "running"
       /\ OperationDone(a)
       /\ ~StateLocked(g, h)
       /\ circuit_breakers' =
             [circuit_breakers EXCEPT ![h] = OnResult(circuit_breakers[h], breaker_config, ok)]
       /\ streak' = [streak EXCEPT ![h] = StreakOnResult(h, ok)]
       /\ cpc' = [cpc EXCEPT ![g] = "idle"]
       /\ cres' = [cres EXCEPT ![g] = IF ok THEN "Ok" ELSE "OperationFailed"]
       /\ counted' = IF ok THEN {} ELSE counted \cup {ErrorKind(a)}
       /\ IF ppc[a] = "leased"
          THEN /\ ppc' = [ppc EXCEPT ![a] = "idle"]
               /\ pending_release' = [pending_release EXCEPT ![lease[a].key] = @ + 1]
               /\ lease' = [lease EXCEPT ![a] = NoLease]
          ELSE UNCHANGED <<ppc, pending_release, lease>>
       /\ pres' = [pres EXCEPT ![a] = "none"]
       /\ output' = [output EXCEPT ![a] = 0]
       /\ UNCHANGED <<now, exited, eof, streamVars, parseVars, gwVars, ptyVars,
                      breaker_config, chost, pool_config, connections, pool_lock,
                      next_session, pruned_idle, timed_out, acquire_pruned>>

\* The other users of the pool (POST /api/ssh/execute and other sessions).
OtherClients == Clients \ {"a"}

NextDispatch ==
    \/ \E g \in WsSessions, h \in GwHosts : HandleSshCommand(g, h)
    \/ \E g \in WsSessions : CheckIsOpen(g)
    \/ \E g \in WsSessions : CallAdmit(g)
    \/ \E g \in WsSessions : OpAcquire(g)
    \/ \E g \in WsSessions, ok \in BOOLEAN : OpConnect(g, ok)
    \/ \E g \in WsSessions : OpExecBegin(g)
    \/ \E g \in WsSessions, ok \in BOOLEAN : OpExecEnd(g, ok)
    \/ \E g \in WsSessions : OperationReturn(g)
    \/ \E c \in OtherClients, k \in Keys : Acquire(c, k)
    \/ \E c \in OtherClients, ok \in BOOLEAN : AcquireConnect(c, ok)
    \/ \E c \in OtherClients : DropLease(c)
    \/ \E k \in Keys : Release(k)

\* The breaker of host h after a failure in state st.
AfterFailure(st) ==
    IF st.tag = "Closed"
    THEN IF st.failures + 1 >= breaker_config.failure_threshold
         THEN Open(now)
         ELSE Closed(st.failures + 1)
    ELSE Open(now)

\* C40: every error that the operation dispatched through the breaker
\* returns, the exhausted pool and the non-zero exit status of a command
\* included, is counted as a failure of the host's breaker, and
\* failure_threshold such results in a row open the circuit of the host.
C40_OperationErrorsCount ==
    /\ [](\A h \in Hosts :
             (streak[h].from = "Closed0" /\ streak[h].n >= breaker_config.failure_threshold)
             => circuit_breakers[h].tag = "Open")
    /\ [][\A g \in WsSessions :
             (/\ cpc[g] = "running" /\ cpc'[g] = "idle"
              /\ pres[OperationClient(g)] \in {"exhausted", "error"})
             => /\ cres'[g] = "OperationFailed"
                /\ circuit_breakers'[chost[g]] = AfterFailure(circuit_breakers[chost[g]])
                /\ streak[chost[g]].from = "Closed0"
                       => streak'[chost[g]].n = streak[chost[g]].n + 1]_vars

\* Two failures in a row, one of them the exhausted pool and one an error of
\* the command, have opened the circuit of the host.
C40_Witness ==
    \E g \in WsSessions :
        /\ breaker_config.failure_threshold = 2
        /\ cres[g] = "OperationFailed"
        /\ circuit_breakers[chost[g]].tag = "Open"
        /\ streak[chost[g]] = [from |-> "Closed0", n |-> 2]
        /\ counted = {"exhausted", "exec"}

(***************************************************************************)
(* Output handler: src/conversations/001-rebe-shell/rebe-core/src/stream/  *)
(* mod.rs (src/src-tauri/src/stream/mod.rs has the same push_chunk).       *)
(* A chunk is modelled by its length.  The chunks are held in memory, so   *)
(* their lengths and max_size stay far below the range of usize.           *)
(***************************************************************************)
MaxStream == 4        \* max_size ranges over 0..MaxStream
MaxChunk == 3         \* a chunk has 0..MaxChunk bytes
MaxChunks == 3        \* at most MaxChunks chunks are accepted

NoPush == [res |-> "none", len |-> 0]

RECURSIVE SumOf(_)
SumOf(seq) == IF seq = <<>> THEN 0 ELSE Head(seq) + SumOf(Tail(seq))

\* The limit test of push_chunk with every sum but the limit itself refused.
TooLargeAtLimit(total, data_len, max) == total + data_len >= max

\* self.total_size + data_len > self.max_size
TooLarge(total, data_len, max) == total + data_len > max

\* StreamingOutputHandler::new(max_size)
InitStream ==
    /\ chunks = <<>>
    /\ total_size = 0
    /\ pushed = NoPush

\* StreamingOutputHandler::push_chunk with a chunk of data_len bytes
PushChunk(data_len) ==
    /\ Len(chunks) < MaxChunks
    /\ IF TooLarge(total_size, data_len, max_size)
       THEN /\ pushed' = [res |-> "err", len |-> data_len]
            /\ UNCHANGED <<chunks, total_size>>
       ELSE /\ total_size' = total_size + data_len
            /\ chunks' = Append(chunks, data_len)
            /\ pushed' = [res |-> "ok", len |-> data_len]
    /\ UNCHANGED <<now, breakerVars, poolVars, ptyVars, gwVars, exited, eof,
                   counted, max_size, parseVars>>

\* StreamingOutputHandler::size
size == total_size

NextStream == \E data_len \in 0..MaxChunk : PushChunk(data_len)

\* C38: total_size is the sum of the lengths of the accepted chunks and is
\* never above max_size; a push_chunk that would exceed max_size returns an
\* error and leaves the chunks and total_size as they were, and every other
\* push_chunk increases size() by exactly the length of the chunk.
C38_SizeIsSumWithinLimit ==
    /\ [](size = SumOf(chunks) /\ size <= max_size)
    /\ [][IF total_size + pushed'.len > max_size
          THEN pushed'.res = "err" /\ chunks' = chunks /\ size' = size
          ELSE pushed'.res = "ok" /\ size' = size + pushed'.len
               /\ chunks' = Append(chunks, pushed'.len)]_vars

\* An accepted chunk has filled the handler to its limit and the next chunk
\* has been refused.
C38_Witness ==
    /\ pushed.res = "err" /\ pushed.len > 0
    /\ chunks # <<>> /\ size = max_size /\ size > 0

\* The state of the components that a specification does not run.
InitAux ==
    /\ exited = {} /\ eof = {} /\ counted = {}
    /\ max_size = MaxSize /\ InitStream
    /\ parse_input = <<>> /\ parse_output = NoCommand

(***************************************************************************)
(* Specifications.  Each runs one component from its state after           *)
(* construction; the other components stay as constructed.                 *)
(***************************************************************************)
InitOfBreaker ==
    /\ now = 0
    /\ breaker_config \in Configs /\ InitBreaker
    /\ pool_config = DefaultPoolConfig /\ InitPool
    /\ InitPty
    /\ InitGateway
    /\ InitAux

InitOfPool ==
    /\ now = 0
    /\ breaker_config = DefaultBreakerConfig /\ InitBreaker
    /\ pool_config \in PoolConfigs /\ InitPool
    /\ InitPty
    /\ InitGateway
    /\ InitAux

InitOfPty ==
    /\ now = 0
    /\ breaker_config = DefaultBreakerConfig /\ InitBreaker
    /\ pool_config = DefaultPoolConfig /\ InitPool
    /\ InitPty
    /\ InitGateway
    /\ InitAux

SpecBreaker == InitOfBreaker /\ [][NextBreaker]_vars

\* The pool: a connection attempt ends, a remote command that completes ends,
\* and a spawned release task runs when the lock is free.
FairPool ==
    /\ \A c \in Clients : WF_vars(\E ok \in BOOLEAN : AcquireConnect(c, ok))
    /\ \A c \in Clients :
          WF_vars(\E ok \in BOOLEAN : \E n \in 0..MaxOutput : ExecEnd(c, ok, n))
    /\ \A k \in Keys : WF_vars(Release(k))

SpecPool == InitOfPool /\ [][NextPool]_vars

SpecExec == InitOfPool /\ [][NextExec]_vars /\ FairPool

SpecPtyTauri == InitOfPty /\ [][NextPtyTauri]_vars

SpecPty == InitOfPty /\ [][NextPty]_vars

InitOfStream ==
    /\ now = 0
    /\ breaker_config = DefaultBreakerConfig /\ InitBreaker
    /\ pool_config = DefaultPoolConfig /\ InitPool
    /\ InitPty
    /\ InitGateway
    /\ exited = {} /\ eof = {} /\ counted = {}
    /\ max_size \in 0..MaxStream /\ InitStream
    /\ parse_input = <<>> /\ parse_output = NoCommand

SpecStream == InitOfStream /\ [][NextStream]_vars

\* The breaker configurations of the gateway specification: the clock stands
\* still in it, so that only failure_threshold matters.
GatewayConfigs == {c \in Configs : c.success_threshold = 1 /\ c.timeout = 1}

\* The gateway: the tasks of its runtime that are ready to run are run.
InitOfGateway ==
    /\ now = 0
    /\ breaker_config \in GatewayConfigs /\ InitBreaker
    /\ pool_config = DefaultPoolConfig /\ InitPool
    /\ InitPty
    /\ InitGateway
    /\ InitAux

FairGateway ==
    \A g \in WsSessions :
        WF_vars(Handshake(g)) /\ WF_vars(Join(g)) /\ WF_vars(GwClose(g))

SpecGateway == InitOfGateway /\ [][NextGateway]_vars /\ FairGateway

SpecOwners == InitOfPty /\ [][NextOwners]_vars

\* The remote call: the breaker configurations of the gateway specification
\* and every pool configuration.
InitOfDispatch ==
    /\ now = 0
    /\ breaker_config \in GatewayConfigs /\ InitBreaker
    /\ pool_config \in PoolConfigs /\ InitPool
    /\ InitPty
    /\ InitGateway
    /\ InitAux

SpecDispatch == InitOfDispatch /\ [][NextDispatch]_vars

InitOfParse ==
    /\ now = 0
    /\ breaker_config = DefaultBreakerConfig /\ InitBreaker
    /\ pool_config = DefaultPoolConfig /\ InitPool
    /\ InitPty
    /\ InitGateway
    /\ exited = {} /\ eof = {} /\ counted = {}
    /\ max_size = MaxSize /\ InitStream
    /\ parse_input \in ParseInputs /\ parse_output = NoCommand

SpecParse == InitOfParse /\ [][NextParse]_vars

\* The gateway and the children of its sessions: the reader-pump goes on
\* polling while it runs.
FairChild ==
    FairGateway /\ \A g \in WsSessions : WF_vars(SendPump(g, "eof"))

SpecChild == InitOfGateway /\ [][NextChild]_vars /\ FairChild

====
